---- MODULE Spec2Model ----
(***************************************************************************)
(* Model of the Tutor Todd relay bot: the thread registry (getThread), the *)
(* assistant round trip (sendToAssistant), the webhook handler, the safe   *)
(* sender with rate-limit retry and quarantine (safeSendMessage) and the   *)
(* daily broadcast loop.                                                   *)
(*                                                                         *)
(* The repository holds two builds of the bot:                             *)
(*   "index"   - src/index.js                                              *)
(*   "part000" - the latest program of src/unnamed/part_000 (lines 190 on) *)
(* The variable program says which build is running; it never changes.     *)
(*                                                                         *)
(* Every await of the code is a position of a task: the action that takes  *)
(* a task out of a position models the awaited call completing together    *)
(* with the synchronous code that follows it up to the next await.         *)
(***************************************************************************)
EXTENDS Integers, Sequences, FiniteSets, TLC

\* ---------------------------------------------------------------- bounds
MaxUpdates == 2      \* inbound updates accepted in one behaviour
MaxPasses == 2       \* firings of the broadcast trigger in one behaviour
MaxAttempts == 3     \* the per-call attempt counter saturates here
MaxRetryAfter == 2   \* largest retry_after a 429 answer carries
MaxNow == 9          \* the clock stops here
TicksPerDay == 2     \* clock ticks in one calendar day
MaxDest == 2         \* getDailyItem: destinations are -MaxDest .. MaxDest

\* ------------------------------------------------------------- constants
Programs == {"index", "part000"}

\* GROUPS of the source, with small stand-ins for the three chat ids
\* (the second one is the Fatherbot group).
GROUPS == <<-1, -2, -3>>
GroupSet == {GROUPS[i] : i \in 1..Len(GROUPS)}

Handlers == {"h1", "h2"}
Cron == "cron"
Tasks == Handlers \cup {Cron}

\* An update is the part of req.body the handler reads. hasText = FALSE
\* stands for an update without message or without message.text.
\* Chat 1 is a private chat (chat.id = from.id); chat -1 is the first group.
Updates ==
    { [chat |-> 1,  from |-> 1, hasText |-> TRUE],
      [chat |-> -1, from |-> 1, hasText |-> TRUE],
      [chat |-> -1, from |-> 2, hasText |-> TRUE],
      [chat |-> 1,  from |-> 1, hasText |-> FALSE] }

Ids == GroupSet \cup {1, 2}

NoThread == 0
MaxThreads == MaxUpdates + MaxPasses * Len(GROUPS)
ThreadIds == 1..MaxThreads

\* The texts the programs send or return.
NoResponse == "No response from assistant."              \* part_000:270
TroubleThinking == "I'm having trouble thinking right now." \* index.js:66
CouldntForm == "Sorry, I couldn't form a proper response."  \* index.js:76
ErrorProcessing == "Error processing your request."      \* part_000:317
SomethingWrong == "Something went wrong."                \* index.js:102
Lesson == "lesson"                                       \* part_000:449-454
Undefined == "undefined"
Empty == ""

\* The text value the run of invocation n writes when it writes one.
OutTexts == <<"out1", "out2", "out3", "out4", "out5", "out6",
              "out7", "out8", "out9", "out10", "out11", "out12">>

\* messages.data[0] as the code sees it: kind "none" is an absent message,
\* "notext" a message whose content[0] has no text part, "empty" a text
\* part whose value is "", "text" a text part with a non-empty value.
NoMsg == [by |-> 0, kind |-> "none"]
OutKinds == {"none", "notext", "empty", "text"}

RunStatuses == {"completed", "failed", "expired"}
SendOutcomes == {"ok", "429", "400", "other"}

VARIABLES
    program,        \* which build runs
    threads,        \* the Map of getThread: identity -> thread id
    invalidGroups,  \* the quarantine Set of safeSendMessage
    nextThread,     \* backend: thread ids handed out so far
    newest,         \* backend: newest output message of each thread
    ninv,           \* sendToAssistant invocations started so far
    pc,             \* position of each task
    upd,            \* handler: the update being handled
    key,            \* sendToAssistant: its first argument
    inv,            \* sendToAssistant: number of this invocation
    threadId,       \* sendToAssistant: const threadId
    runs,           \* runs started by the current invocation
    appended,       \* the current invocation has appended its input
    status,         \* run.status of the current invocation
    seen,           \* messages.data[0] as the current invocation read it
    fetched,        \* the current invocation has listed the messages
    reply,          \* what sendToAssistant returned
    out,            \* arguments of the task's latest bot.sendMessage call
    nsend,          \* bot.sendMessage calls of the current handling
    acked,          \* handler: res.sendStatus(200) was called
    escaped,        \* handler: its promise rejected
    k,              \* broadcast: position in GROUPS
    passes,         \* broadcast: firings so far
    received,       \* updates accepted so far
    result,         \* broadcast: what safeSendMessage returned
    lastErr,        \* broadcast: outcome of the latest attempt
    wait,           \* broadcast: seconds left of the retry sleep
    retryAfter,     \* broadcast: retry_after of the 429 being waited out
    slept,          \* broadcast: seconds the retry sleep has lasted
    creates,        \* threads.create calls issued, per identity
    quarSends,      \* destinations sent to while quarantined
    attempted,      \* broadcast: destinations attempted in this pass
    skipped,        \* broadcast: destinations skipped in this pass
    startQ,         \* broadcast: quarantine set when the pass began
    callQ,          \* broadcast: quarantine set when safeSendMessage began
    now,            \* the clock: ticks since midnight before 1 January
    arr,            \* getDailyItem: the list it is called with
    seed,           \* getDailyItem: the seed it is called with
    groupId,        \* getDailyItem: the destination it is called with
    picked          \* items getDailyItem returned, per calendar day

shared == <<threads, nextThread, newest, ninv, creates>>
orch == <<key, inv, threadId, runs, appended, status, seen, fetched, reply>>
sendv == <<out, nsend, quarSends>>
handv == <<upd, acked, escaped, received>>
cronv == <<k, passes, result, lastErr, wait, retryAfter, slept, attempted, skipped, startQ, callQ,
           invalidGroups>>
pickv == <<now, arr, seed, groupId, picked>>
vars == <<program, pc, shared, orch, sendv, handv, cronv, pickv>>

NoOut == [dest |-> 0, msg |-> Empty, markdown |-> FALSE]

\* A value that is not an array, and the lists getDailyItem is called with.
NotAList == [isArray |-> FALSE, items |-> <<>>]
List(items) == [isArray |-> TRUE, items |-> items]
Lists == {NotAList, List(<<>>), List(<<"A">>), List(<<"A", "B">>),
          List(<<"A", "B", "C">>)}
Seeds == {0, 7, -5}
Days == 0 .. (MaxNow \div TicksPerDay)

\* No call of getDailyItem is under observation.
NoPick ==
    /\ now = 0
    /\ arr = NotAList
    /\ seed = 0
    /\ groupId = 0
    /\ picked = [D \in Days |-> {}]

InitBot ==
    /\ program \in Programs
    /\ threads = [i \in Ids |-> NoThread]
    /\ invalidGroups = {}
    /\ nextThread = 0
    /\ newest = [h \in ThreadIds |-> NoMsg]
    /\ ninv = 0
    /\ pc = [t \in Tasks |-> "idle"]
    /\ upd = [t \in Handlers |-> [chat |-> 1, from |-> 1, hasText |-> FALSE]]
    /\ key = [t \in Tasks |-> 0]
    /\ inv = [t \in Tasks |-> 0]
    /\ threadId = [t \in Tasks |-> NoThread]
    /\ runs = [t \in Tasks |-> 0]
    /\ appended = [t \in Tasks |-> FALSE]
    /\ status = [t \in Tasks |-> "none"]
    /\ seen = [t \in Tasks |-> NoMsg]
    /\ fetched = [t \in Tasks |-> FALSE]
    /\ reply = [t \in Tasks |-> Undefined]
    /\ out = [t \in Tasks |-> NoOut]
    /\ nsend = [t \in Tasks |-> 0]
    /\ acked = [t \in Handlers |-> FALSE]
    /\ escaped = [t \in Handlers |-> FALSE]
    /\ k = 0
    /\ passes = 0
    /\ received = 0
    /\ result = "none"
    /\ lastErr = "none"
    /\ wait = 0
    /\ retryAfter = 0
    /\ slept = 0
    /\ creates = [i \in Ids |-> 0]
    /\ quarSends = {}
    /\ attempted = {}
    /\ skipped = {}
    /\ startQ = {}
    /\ callQ = {}

Init == InitBot /\ NoPick

\* ------------------------------------------------------------- helpers
Sat(n) == IF n < MaxAttempts THEN n + 1 ELSE n

\* threads.has(chatId)
HasThread(m, id) == m[id] # NoThread

\* The key of the thread Map the webhook handler passes to sendToAssistant:
\* message.from.id in index.js, update.message.chat.id in part_000.
ThreadKey(u) == IF program = "index" THEN u.from ELSE u.chat

\* The text the catch block of the webhook handler sends.
Apology == IF program = "index" THEN SomethingWrong ELSE ErrorProcessing

\* messages.data[0]?.content?.[0]?.text?.value
TextValue(m) ==
    CASE m.kind = "text" -> OutTexts[m.by]
      [] m.kind = "empty" -> Empty
      [] OTHER -> Undefined

\* part_000: return replyMessage || fallback
ExtractPart000(m) ==
    IF TextValue(m) \in {Undefined, Empty} THEN NoResponse ELSE TextValue(m)

\* index.js: try { return aiMsg.content[0].text.value } catch { fallback }
\* The property access throws only when the message or its text part is
\* missing; an empty value is returned as it is.
ExtractIndex(m) ==
    IF m.kind \in {"none", "notext"} THEN CouldntForm ELSE TextValue(m)

ExtractReply(m) ==
    IF program = "index" THEN ExtractIndex(m) ELSE ExtractPart000(m)

\* A bot.sendMessage call being made by task t; n0 is the number of calls
\* the current handling has made before it.
IssueSend(t, d, m, md, n0) ==
    /\ out' = [out EXCEPT ![t] = [dest |-> d, msg |-> m, markdown |-> md]]
    /\ nsend' = [nsend EXCEPT ![t] = Sat(n0)]
    /\ quarSends' = IF d \in invalidGroups THEN quarSends \cup {d} ELSE quarSends

\* Destination of the sends a task makes for the reply of sendToAssistant.
ReplyDest(t) == IF t = Cron THEN key[t] ELSE upd[t].chat

\* sendToAssistant returned r to its caller: the caller sends it.
Return(t, r) ==
    /\ reply' = [reply EXCEPT ![t] = r]
    /\ IssueSend(t, ReplyDest(t), r, t = Cron, nsend[t])
    /\ pc' = [pc EXCEPT ![t] = "reply"]
    /\ UNCHANGED <<acked, escaped, k>>

\* sendToAssistant threw: the catch block of the caller runs.
Throw(t) ==
    /\ UNCHANGED <<reply, acked, escaped>>
    /\ IF t = Cron
       THEN /\ pc' = [pc EXCEPT ![t] = "loop"]
            /\ k' = k + 1
            /\ UNCHANGED sendv
       ELSE /\ IssueSend(t, upd[t].chat, Apology, FALSE, nsend[t])
            /\ pc' = [pc EXCEPT ![t] = "apology"]
            /\ UNCHANGED k

\* sendToAssistant stays suspended, at position p.
Stay(t, p) ==
    /\ pc' = [pc EXCEPT ![t] = p]
    /\ UNCHANGED <<reply, sendv, acked, escaped, k>>

\* sendToAssistant(id, text) is called by task t: getThread runs up to its
\* await (the has-check and, on a miss, the threads.create call).
StartOrch(t, id) ==
    /\ ninv' = ninv + 1
    /\ inv' = [inv EXCEPT ![t] = ninv + 1]
    /\ key' = [key EXCEPT ![t] = id]
    /\ runs' = [runs EXCEPT ![t] = 0]
    /\ appended' = [appended EXCEPT ![t] = FALSE]
    /\ status' = [status EXCEPT ![t] = "none"]
    /\ seen' = [seen EXCEPT ![t] = NoMsg]
    /\ fetched' = [fetched EXCEPT ![t] = FALSE]
    /\ reply' = [reply EXCEPT ![t] = Undefined]
    /\ IF HasThread(threads, id)
       THEN /\ threadId' = [threadId EXCEPT ![t] = threads[id]]
            /\ pc' = [pc EXCEPT ![t] = "append"]
            /\ UNCHANGED creates
       ELSE /\ threadId' = [threadId EXCEPT ![t] = NoThread]
            /\ pc' = [pc EXCEPT ![t] = "create"]
            /\ creates' = [creates EXCEPT ![id] = @ + 1]
    /\ UNCHANGED <<threads, nextThread, newest>>

\* ------------------------------------------------- sendToAssistant steps
\* threads.create() settles; getThread stores and returns the new id and
\* sendToAssistant calls messages.create.
CreateReturn(t) ==
    /\ pc[t] = "create"
    /\ \E ok \in BOOLEAN :
         IF ok
         THEN /\ nextThread' = nextThread + 1
              /\ threads' = [threads EXCEPT ![key[t]] = nextThread + 1]
              /\ threadId' = [threadId EXCEPT ![t] = nextThread + 1]
              /\ Stay(t, "append")
         ELSE /\ UNCHANGED <<nextThread, threads, threadId>>
              /\ Throw(t)
    /\ UNCHANGED <<pickv, program, newest, ninv, creates, key, inv, runs, appended,
                   status, seen, fetched, handv, cronv>>

\* messages.create settles; sendToAssistant calls runs.createAndPoll.
AppendReturn(t) ==
    /\ pc[t] = "append"
    /\ \E ok \in BOOLEAN :
         IF ok
         THEN /\ appended' = [appended EXCEPT ![t] = TRUE]
              /\ runs' = [runs EXCEPT ![t] = @ + 1]
              /\ Stay(t, "run")
         ELSE /\ UNCHANGED <<appended, runs>>
              /\ Throw(t)
    /\ UNCHANGED <<pickv, program, shared, key, inv, threadId, status, seen, fetched,
                   handv, cronv>>

AfterRunRetry(t, st) ==
    IF st = "completed"
    THEN UNCHANGED runs /\ Stay(t, "list")
    ELSE runs' = [runs EXCEPT ![t] = @ + 1] /\ Stay(t, "run")

\* What sendToAssistant does with a run that ended in status st: it starts
\* no further run.
AfterRun(t, st) ==
    /\ UNCHANGED runs
    /\ IF st = "completed"
       THEN Stay(t, "list")
       ELSE IF program = "index" THEN Return(t, TroubleThinking) ELSE Throw(t)

\* runs.createAndPoll settles: the run reached a terminal status (a run
\* that completes may have written an output message), or the call rejects.
RunReturn(t) ==
    /\ pc[t] = "run"
    /\ \/ /\ UNCHANGED <<newest, status, runs>>
          /\ Throw(t)
       \/ \E st \in RunStatuses \ {"completed"} :
            /\ UNCHANGED newest
            /\ status' = [status EXCEPT ![t] = st]
            /\ AfterRun(t, st)
       \/ \E kind \in OutKinds :
            /\ status' = [status EXCEPT ![t] = "completed"]
            /\ newest' = IF kind = "none"
                         THEN newest
                         ELSE [newest EXCEPT ![threadId[t]] =
                                  [by |-> inv[t], kind |-> kind]]
            /\ AfterRun(t, "completed")
    /\ UNCHANGED <<pickv, program, threads, nextThread, ninv, creates, key, inv,
                   threadId, appended, seen, fetched, handv, cronv>>

\* messages.list settles; sendToAssistant extracts the reply and returns.
ListReturn(t) ==
    /\ pc[t] = "list"
    /\ \E ok \in BOOLEAN :
         IF ok
         THEN /\ fetched' = [fetched EXCEPT ![t] = TRUE]
              /\ seen' = [seen EXCEPT ![t] = newest[threadId[t]]]
              /\ Return(t, ExtractReply(newest[threadId[t]]))
         ELSE /\ UNCHANGED <<fetched, seen>>
              /\ Throw(t)
    /\ UNCHANGED <<pickv, program, shared, key, inv, threadId, runs, appended,
                   status, handv, cronv>>

\* ------------------------------------------------------- webhook handler
\* A handler that lets every update through to sendToAssistant.
IgnoredNever(u) == FALSE

\* if (!update.message || !update.message.text) return res.sendStatus(200)
Ignored(u) == ~u.hasText

\* app.post: an update arrives. Without text it is acknowledged at once;
\* with text the handler calls sendToAssistant.
Receive(t) ==
    /\ t \in Handlers
    /\ pc[t] \in {"idle", "done"}
    /\ received < MaxUpdates
    /\ received' = received + 1
    /\ \E u \in Updates :
         /\ upd' = [upd EXCEPT ![t] = u]
         /\ escaped' = [escaped EXCEPT ![t] = FALSE]
         /\ nsend' = [nsend EXCEPT ![t] = 0]
         /\ out' = [out EXCEPT ![t] = NoOut]
         /\ IF ~Ignored(u)
            THEN /\ StartOrch(t, ThreadKey(u))
                 /\ acked' = [acked EXCEPT ![t] = FALSE]
            ELSE /\ acked' = [acked EXCEPT ![t] = TRUE]
                 /\ pc' = [pc EXCEPT ![t] = "done"]
                 /\ UNCHANGED <<shared, orch>>
    /\ UNCHANGED <<pickv, program, quarSends, cronv>>

\* What the handler does when the send of the reply settled with outcome o:
\* "ack" (fall through to res.sendStatus) or "catch" (the catch block runs).
AfterReplySend(o) ==
    IF program = "part000" /\ o # "ok" THEN "catch" ELSE "ack"

\* What the handler does when the send of the apology settled with
\* outcome o: "ack", or "escape" (the rejection leaves the handler).
AfterApologySend(o) ==
    IF program = "part000" /\ o # "ok" THEN "escape" ELSE "ack"

\* bot.sendMessage(chatId, reply) settles.
ReplyReturn(t) ==
    /\ t \in Handlers
    /\ pc[t] = "reply"
    /\ \E o \in SendOutcomes :
         IF AfterReplySend(o) = "ack"
         THEN /\ acked' = [acked EXCEPT ![t] = TRUE]
              /\ pc' = [pc EXCEPT ![t] = "done"]
              /\ UNCHANGED sendv
         ELSE /\ IssueSend(t, upd[t].chat, Apology, FALSE, nsend[t])
              /\ pc' = [pc EXCEPT ![t] = "apology"]
              /\ UNCHANGED acked
    /\ UNCHANGED <<pickv, program, shared, orch, upd, escaped, received, cronv>>

\* The bot.sendMessage of the catch block settles.
ApologyReturn(t) ==
    /\ t \in Handlers
    /\ pc[t] = "apology"
    /\ \E o \in SendOutcomes :
         IF AfterApologySend(o) = "ack"
         THEN /\ acked' = [acked EXCEPT ![t] = TRUE]
              /\ UNCHANGED escaped
         ELSE /\ escaped' = [escaped EXCEPT ![t] = TRUE]
              /\ UNCHANGED acked
    /\ pc' = [pc EXCEPT ![t] = "done"]
    /\ UNCHANGED <<pickv, program, shared, orch, sendv, upd, received, cronv>>

\* ------------------------------------------------------- safeSendMessage
\* A catch block that takes every error but the rate limit for a permanent
\* failure (the statusCode === 400 test left out).
ClassifyAnyError(o) ==
    CASE o = "429" -> "retry"
      [] OTHER -> "quarantine"

\* The branch the catch block of safeSendMessage takes for an outcome.
Classify(o) ==
    CASE o = "429" -> "retry"
      [] o = "400" -> "quarantine"
      [] OTHER -> "giveup"

\* A permanent-failure branch that forgets invalidGroups.add.
QuarantineDropped(q, d) == q

QuarantineOnlyLatest(q, d) == {d}

\* invalidGroups.add(chatId)
Quarantine(q, d) == q \cup {d}

RetryAfterNone(ra) == 0

\* const retryAfter = err.response?.body?.parameters?.retry_after || 1
RetryAfter(ra) == IF ra = 0 THEN 1 ELSE ra

\* ------------------------------------------------------- daily broadcast
\* The cron trigger fires.
Fire ==
    /\ pc[Cron] = "idle"
    /\ passes < MaxPasses
    /\ passes' = passes + 1
    /\ k' = 1
    /\ pc' = [pc EXCEPT ![Cron] = "loop"]
    /\ attempted' = {}
    /\ skipped' = {}
    /\ startQ' = invalidGroups
    /\ UNCHANGED <<pickv, program, shared, orch, sendv, handv, result, lastErr, wait,
                   retryAfter, slept, callQ, invalidGroups>>

\* A loop that stops at the first destination whose send returned null.
NextPosAbortOnNull(kk, res) ==
    IF res = "null" THEN Len(GROUPS) + 1 ELSE kk + 1

NextPosSkipOne(kk, res) == kk + 2

\* The position of the loop after the iteration at position kk ended with
\* res (what safeSendMessage returned, or "skip", or "thrown").
NextPos(kk, res) == kk + 1

\* The quarantine check at the head of the loop body.
SkipGroup(q, g) == g \in q

\* One iteration of for (const groupId of GROUPS) up to its first await, or
\* the end of the loop.
LoopIter ==
    /\ pc[Cron] = "loop"
    /\ IF k > Len(GROUPS)
       THEN /\ pc' = [pc EXCEPT ![Cron] = "idle"]
            /\ UNCHANGED <<shared, orch, sendv, k, result, lastErr, attempted,
                           skipped, callQ>>
       ELSE IF program = "index"
       THEN /\ StartOrch(Cron, GROUPS[k])
            /\ nsend' = [nsend EXCEPT ![Cron] = 0]
            /\ UNCHANGED <<out, quarSends, k, result, lastErr, attempted,
                           skipped, callQ>>
       ELSE IF SkipGroup(invalidGroups, GROUPS[k])
       THEN /\ skipped' = skipped \cup {GROUPS[k]}
            /\ k' = NextPos(k, "skip")
            /\ UNCHANGED <<pc, shared, orch, sendv, result, lastErr,
                           attempted, callQ>>
       ELSE /\ IssueSend(Cron, GROUPS[k], Lesson, TRUE, 0)
            /\ attempted' = attempted \cup {GROUPS[k]}
            /\ callQ' = invalidGroups
            /\ result' = "pending"
            /\ lastErr' = "none"
            /\ pc' = [pc EXCEPT ![Cron] = "send"]
            /\ UNCHANGED <<shared, orch, k, skipped>>
    /\ UNCHANGED <<pickv, program, handv, passes, wait, retryAfter, slept,
                   startQ, invalidGroups>>

\* index.js: the bot.sendMessage of the loop body settles; a rejection is
\* caught by the try of the loop body.
CronReplyReturn ==
    /\ pc[Cron] = "reply"
    /\ \E o \in SendOutcomes :
         k' = NextPos(k, IF o = "ok" THEN "ok" ELSE "thrown")
    /\ pc' = [pc EXCEPT ![Cron] = "loop"]
    /\ UNCHANGED <<pickv, program, shared, orch, sendv, handv, passes, result,
                   lastErr, wait, retryAfter, slept, attempted, skipped, startQ,
                   callQ, invalidGroups>>

\* part_000: the bot.sendMessage inside safeSendMessage settles.
SendReturn ==
    /\ pc[Cron] = "send"
    /\ \E o \in SendOutcomes, ra \in 0..MaxRetryAfter :
         /\ lastErr' = IF o = "ok" THEN lastErr ELSE o
         /\ IF o = "ok"
            THEN /\ result' = "ok"
                 /\ k' = NextPos(k, "ok")
                 /\ pc' = [pc EXCEPT ![Cron] = "loop"]
                 /\ UNCHANGED <<wait, retryAfter, slept, invalidGroups>>
            ELSE IF Classify(o) = "retry"
            THEN /\ wait' = RetryAfter(ra)
                 /\ retryAfter' = ra
                 /\ slept' = 0
                 /\ pc' = [pc EXCEPT ![Cron] = "sleep"]
                 /\ UNCHANGED <<result, k, invalidGroups>>
            ELSE /\ invalidGroups' = IF Classify(o) = "quarantine"
                                     THEN Quarantine(invalidGroups, out[Cron].dest)
                                     ELSE invalidGroups
                 /\ result' = "null"
                 /\ k' = NextPos(k, "null")
                 /\ pc' = [pc EXCEPT ![Cron] = "loop"]
                 /\ UNCHANGED <<wait, retryAfter, slept>>
    /\ UNCHANGED <<pickv, program, shared, orch, sendv, handv, passes, attempted,
                   skipped, startQ, callQ>>

\* One second of the setTimeout of the retry passes.
Tick ==
    /\ pc[Cron] = "sleep"
    /\ wait > 0
    /\ wait' = wait - 1
    /\ slept' = slept + 1
    /\ UNCHANGED <<pickv, program, pc, shared, orch, sendv, handv, k, passes, result,
                   lastErr, retryAfter, attempted, skipped, startQ, callQ,
                   invalidGroups>>

\* The timer fired: return safeSendMessage(chatId, message, options).
Retry ==
    /\ pc[Cron] = "sleep"
    /\ wait = 0
    /\ IssueSend(Cron, out[Cron].dest, out[Cron].msg, out[Cron].markdown,
                 nsend[Cron])
    /\ pc' = [pc EXCEPT ![Cron] = "send"]
    /\ retryAfter' = 0
    /\ slept' = 0
    /\ UNCHANGED <<pickv, program, shared, orch, handv, k, passes, result, lastErr,
                   wait, attempted, skipped, startQ, callQ, invalidGroups>>

\* ---------------------------------------------------------- specification
\* The webhook handlers alone: the trigger never fires.
NextInbound ==
    \/ \E t \in Handlers : Receive(t)
    \/ \E t \in Handlers : CreateReturn(t)
    \/ \E t \in Handlers : AppendReturn(t)
    \/ \E t \in Handlers : RunReturn(t)
    \/ \E t \in Handlers : ListReturn(t)
    \/ \E t \in Handlers : ReplyReturn(t)
    \/ \E t \in Handlers : ApologyReturn(t)

\* The daily broadcast alone: no update arrives.
NextBroadcast ==
    \/ Fire
    \/ LoopIter
    \/ CreateReturn(Cron)
    \/ AppendReturn(Cron)
    \/ RunReturn(Cron)
    \/ ListReturn(Cron)
    \/ CronReplyReturn
    \/ SendReturn
    \/ Tick
    \/ Retry

Next == NextInbound \/ NextBroadcast

Spec == Init /\ [][Next]_vars
SpecInbound == Init /\ [][NextInbound]_vars
SpecBroadcast == Init /\ [][NextBroadcast]_vars

\* part_000 with the broadcast and one webhook handler running together.
InitRelay == Init /\ program = "part000"

NextRelay ==
    \/ Fire
    \/ LoopIter
    \/ SendReturn
    \/ Tick
    \/ Retry
    \/ Receive("h1")
    \/ CreateReturn("h1")
    \/ AppendReturn("h1")
    \/ RunReturn("h1")
    \/ ListReturn("h1")
    \/ ReplyReturn("h1")
    \/ ApologyReturn("h1")

SpecRelay == InitRelay /\ [][NextRelay]_vars

\* The event loop runs every continuation and every timer that is ready.
FairBroadcast ==
    /\ SpecBroadcast
    /\ WF_vars(LoopIter)
    /\ WF_vars(SendReturn)
    /\ WF_vars(Tick)
    /\ WF_vars(Retry)
    /\ WF_vars(CreateReturn(Cron))
    /\ WF_vars(AppendReturn(Cron))
    /\ WF_vars(RunReturn(Cron))
    /\ WF_vars(ListReturn(Cron))
    /\ WF_vars(CronReplyReturn)

\* -------------------------------------------------------------- properties
\* C1: for every identity at most one createContext (threads.create) call
\* is ever issued, however the getThread calls for it overlap.
C1_SingleCreate == \A i \in Ids : creates[i] <= 1

\* C2: once the registry holds a thread id for an identity the entry is
\* never overwritten or removed, and every getThread call for that identity
\* that returns, returns that id.
C2_RegistryStable ==
    [][\A i \in Ids :
          threads[i] # NoThread =>
             /\ threads'[i] = threads[i]
             /\ \A t \in Tasks :
                  (key'[t] = i /\ pc[t] # "append" /\ pc'[t] = "append")
                     => threadId'[t] = threads[i]]_vars

\* C3: no bot.sendMessage call is made with a destination that is in the
\* quarantine set at the time of the call.
C3_NoSendToQuarantined == quarSends = {}

\* C4: a safeSendMessage call that has made an attempt always returns to
\* its caller, also when every attempt is answered with a rate limit.
C4_SendTerminates == [](pc[Cron] = "send" => <>(pc[Cron] = "loop"))

\* C5: a handler that has finished with an update has acknowledged it and
\* let no exception escape.
C5_AlwaysAcked ==
    \A t \in Handlers : pc[t] = "done" => (acked[t] /\ ~escaped[t])

\* The iteration of the broadcast loop for position i has passed its
\* quarantine check.
Decided(i) == i < k \/ (i = k /\ pc[Cron] \in {"send", "sleep"})

\* C6: in a firing of the broadcast of part_000, every destination whose
\* turn has come was attempted unless it was quarantined when the pass
\* began (the only way to be quarantined at one's turn, a destination being
\* quarantined by its own attempt), whatever the earlier destinations
\* answered; with one of the three quarantined beforehand exactly two
\* destinations are attempted by the end of the pass.
C6_EveryDestinationAttempted ==
    (program = "part000" /\ passes > 0) =>
       /\ \A i \in 1..Len(GROUPS) :
            Decided(i) => (GROUPS[i] \in attempted <=> GROUPS[i] \notin startQ)
       /\ (pc[Cron] = "idle" /\ Cardinality(startQ) = 1)
             => Cardinality(attempted) = 2

\* A pass that began with the first group quarantined has ended; the second
\* group failed permanently and the third was attempted all the same.
C6_Witness ==
    /\ program = "part000"
    /\ pc[Cron] = "idle"
    /\ startQ = {GROUPS[1]}
    /\ attempted = {GROUPS[2], GROUPS[3]}
    /\ GROUPS[2] \in invalidGroups

\* C7: after an attempt of safeSendMessage failed with the permanent-failure
\* signal the destination is quarantined, the call has returned null, and no
\* attempt of that call is in flight or scheduled.
C7_PermanentFailure ==
    lastErr = "400" =>
       /\ out[Cron].dest \in invalidGroups
       /\ result = "null"
       /\ pc[Cron] \in {"loop", "idle"}

\* A call was rate limited once, retried, and then failed permanently.
C7_Witness ==
    /\ lastErr = "400"
    /\ nsend[Cron] = 2
    /\ result = "null"
    /\ out[Cron].dest \in invalidGroups \ callQ

\* C8: after an attempt of safeSendMessage failed with an error that is
\* neither a rate limit nor a permanent failure, the call has returned null
\* (it did not throw), no attempt of it is in flight or scheduled, and the
\* quarantine set is what it was when the call began.
C8_OtherError ==
    lastErr = "other" =>
       /\ result = "null"
       /\ pc[Cron] \in {"loop", "idle"}
       /\ invalidGroups = callQ

\* A call failed with an unclassified error while another destination was
\* already quarantined.
C8_Witness ==
    /\ lastErr = "other"
    /\ result = "null"
    /\ callQ # {}
    /\ invalidGroups = callQ
    /\ out[Cron].dest \notin invalidGroups

\* C9: a handler whose run ended in a terminal status other than completed
\* fetched no output, started no second run, sent the fallback apology to
\* the chat of the update, acknowledged, and let nothing escape.
C9_RunFailure ==
    \A t \in Handlers :
       (pc[t] = "done" /\ upd[t].hasText /\ status[t] \in RunStatuses \ {"completed"})
          => /\ ~fetched[t]
             /\ runs[t] = 1
             /\ out[t].dest = upd[t].chat
             /\ out[t].msg \in {ErrorProcessing, TroubleThinking}
             /\ acked[t]
             /\ ~escaped[t]

\* C10: when messages.data[0] is absent, has no text part, or has an empty
\* text value, sendToAssistant returns its fixed fallback string; it never
\* returns an empty reply.
C10_FallbackOnEmpty ==
    \A t \in Tasks :
       fetched[t] =>
          /\ reply[t] # Empty
          /\ seen[t].kind \in {"none", "notext", "empty"}
                => reply[t] \in {NoResponse, CouldntForm}

\* C11: a step that changes anything about the handling of an update that
\* carries no text leaves that handling finished and acknowledged with no
\* bot.sendMessage call made, and starts no sendToAssistant invocation,
\* issues no threads.create, and changes neither the thread Map, nor the
\* backend threads, nor the quarantine set.
C11_NoTextIgnored ==
    [][\A t \in Handlers :
          (/\ ~upd'[t].hasText
           /\ \/ pc'[t] # pc[t]
              \/ upd'[t] # upd[t]
              \/ acked'[t] # acked[t])
          => /\ pc'[t] = "done"
             /\ acked'[t]
             /\ ~escaped'[t]
             /\ nsend'[t] = 0
             /\ out'[t] = NoOut
             /\ ninv' = ninv
             /\ creates' = creates
             /\ threads' = threads
             /\ newest' = newest
             /\ invalidGroups' = invalidGroups
             /\ quarSends' = quarSends]_vars

\* A handler has taken an update without text and finished with it while the
\* other handler is inside sendToAssistant.
C11_Witness ==
    \E t \in Handlers :
       /\ pc[t] = "done"
       /\ ~upd[t].hasText
       /\ acked[t]
       /\ nsend[t] = 0
       /\ received = 2
       /\ \E o \in Handlers \ {t} : pc[o] = "run"

\* C12: a handler that has finished with an update whose run completed and
\* whose newest output has a non-empty text made exactly one bot.sendMessage
\* call for the update, with the chat of the update and that text, and
\* acknowledged the update.
C12_ExactlyOneSend ==
    \A t \in Handlers :
       (pc[t] = "done" /\ upd[t].hasText /\ fetched[t] /\ seen[t].kind = "text")
          => /\ nsend[t] = 1
             /\ out[t] = [dest |-> upd[t].chat, msg |-> OutTexts[seen[t].by],
                          markdown |-> FALSE]
             /\ acked[t]

\* C13: two updates with text are appended to the same thread exactly when
\* they come from the same chat, whoever sent them.
C13_KeyedByChat ==
    \A t1, t2 \in Handlers :
       (/\ upd[t1].hasText /\ appended[t1]
        /\ upd[t2].hasText /\ appended[t2])
          => (upd[t1].chat = upd[t2].chat <=> threadId[t1] = threadId[t2])

\* ------------------------------------------------------ the polling loop
\* runs.createAndPoll retrieves the run and finds it queued or in progress:
\* it sleeps for the poll interval. No maximum wait is passed to it.
PollPending(t) ==
    /\ pc[t] = "run"
    /\ pc' = [pc EXCEPT ![t] = "pollsleep"]
    /\ UNCHANGED <<pickv, program, shared, orch, sendv, handv, cronv>>

\* The poll interval is over: createAndPoll retrieves the run again.
PollWake(t) ==
    /\ pc[t] = "pollsleep"
    /\ pc' = [pc EXCEPT ![t] = "run"]
    /\ UNCHANGED <<pickv, program, shared, orch, sendv, handv, cronv>>

\* One webhook handler with the polling loop of createAndPoll spelled out.
NextPoll ==
    \/ Receive("h1")
    \/ CreateReturn("h1")
    \/ AppendReturn("h1")
    \/ RunReturn("h1")
    \/ PollPending("h1")
    \/ PollWake("h1")
    \/ ListReturn("h1")
    \/ ReplyReturn("h1")
    \/ ApologyReturn("h1")

SpecPoll == Init /\ [][NextPoll]_vars

\* Every call the handler awaits settles and every timer fires; whether a
\* retrieve finds the run terminal is up to the backend.
FairPoll ==
    /\ SpecPoll
    /\ WF_vars(CreateReturn("h1"))
    /\ WF_vars(AppendReturn("h1"))
    /\ WF_vars(RunReturn("h1") \/ PollPending("h1"))
    /\ WF_vars(PollWake("h1"))
    /\ WF_vars(ListReturn("h1"))
    /\ WF_vars(ReplyReturn("h1"))
    /\ WF_vars(ApologyReturn("h1"))

\* C14: an invocation of sendToAssistant that waits for its run always
\* stops waiting, also when the run never reaches a terminal status.
C14_PollingEnds ==
    \A t \in Handlers :
       [](pc[t] = "run" => <>(pc[t] \notin {"run", "pollsleep"}))

\* ------------------------------------------------- the daily selection
\* The % of the source: the result takes the sign of the dividend.
JsRem(a, n) == IF a >= 0 THEN a % n ELSE -((-a) % n)

JsAbsIdentity(x) == x

\* Math.abs(Number(groupId) || 0)
JsAbs(x) == IF x < 0 THEN -x ELSE x

\* arr[index]: an index outside the array reads undefined.
ArrGet(items, i) ==
    IF i >= 0 /\ i < Len(items) THEN items[i + 1] ELSE Undefined

\* getDayOfYear: Math.floor(diff / oneDay), diff being the time since the
\* midnight that ends the previous year.
getDayOfYear == now \div TicksPerDay

IndexNoWrap(base, n) == JsRem(base, n)

IndexWiderModulus(base, n) == JsRem(JsRem(base, n + 1) + n + 1, n + 1)

\* ((base % arr.length) + arr.length) % arr.length
Index(base, n) == JsRem(JsRem(base, n) + n, n)

getDailyItem(a, s, g) ==
    IF ~a.isArray \/ Len(a.items) = 0
    THEN Empty
    ELSE LET day == getDayOfYear
             base == day + s + JsAbs(g)
         IN  ArrGet(a.items, Index(base, Len(a.items)))

\* The calendar day the clock shows.
Today == now \div TicksPerDay

\* A message builder calls getDailyItem for destination g and gets its item.
PickCall(g) ==
    /\ picked' = [picked EXCEPT ![Today] =
                     @ \cup {[dest |-> g, item |-> getDailyItem(arr, seed, g)]}]
    /\ UNCHANGED <<program, pc, shared, orch, sendv, handv, cronv,
                   now, arr, seed, groupId>>

\* Time passes.
ClockTick ==
    /\ now < MaxNow
    /\ now' = now + 1
    /\ UNCHANGED <<program, pc, shared, orch, sendv, handv, cronv,
                   arr, seed, groupId, picked>>

\* getDailyItem called over the days with one list, seed and destination,
\* the destination given with either sign.
InitPick ==
    /\ InitBot
    /\ program = "part000"
    /\ now = 0
    /\ arr \in Lists
    /\ seed \in Seeds
    /\ groupId \in (-MaxDest) .. MaxDest
    /\ picked = [D \in Days |-> {}]

NextPick ==
    \/ ClockTick
    \/ PickCall(groupId)
    \/ PickCall(-groupId)

SpecPick == InitPick /\ [][NextPick]_vars

\* C15: getDailyItem returns the empty text for an empty list or a value
\* that is no list, and otherwise the element of L at the 0-based position
\* (D + s + |d|) mod n, n the length of L and D the day index, which lies
\* in 0 .. n-1 for every s and d.
C15_DailyIndex ==
    \A D \in Days : \A p \in picked[D] :
       IF ~arr.isArray \/ Len(arr.items) = 0
       THEN p.item = Empty
       ELSE LET n == Len(arr.items)
                d == IF p.dest < 0 THEN -p.dest ELSE p.dest
                kk == (D + seed + d) % n
            IN  kk \in 0 .. (n - 1) /\ p.item = arr.items[kk + 1]

\* A call on a list of three with a negative seed, on a day where
\* D + s + |d| is negative, has returned an element of the list.
C15_Witness ==
    /\ seed < 0
    /\ Len(arr.items) = 3
    /\ \E D \in Days : \E p \in picked[D] :
          D + seed + JsAbs(p.dest) < 0 /\ p.item \in {"A", "B", "C"}

\* C16: with L, s and d fixed, the item of day index D + n is the item of
\* day index D, n the length of L.
C16_Periodic ==
    \A D \in Days : \A p \in picked[D] :
       LET n == Len(arr.items)
       IN  (arr.isArray /\ n > 0 /\ D + n \in Days)
              => \A q \in picked[D + n] : q.dest = p.dest => q.item = p.item

\* A list of three, seed 7, destination 0: day 0 and day 3 both picked.
C16_Witness ==
    /\ Len(arr.items) = 3 /\ seed = 7 /\ groupId = 0
    /\ picked[0] # {} /\ picked[3] # {}

\* C17: calls of getDailyItem with the same arguments on the same day
\* return the same item, a destination -d gets the item of |d|, and a call
\* changes no state of the bot.
C17_PureSelection ==
    [][/\ \A D \in Days : \A p, q \in picked'[D] :
             (p.dest = q.dest \/ p.dest = -q.dest) => p.item = q.item
       /\ picked' # picked
             => UNCHANGED <<program, pc, shared, orch, sendv, handv, cronv,
                            now, arr, seed, groupId>>]_vars

\* On one day a negative destination and its absolute value were both
\* served from a list of three.
C17_Witness ==
    /\ Len(arr.items) = 3
    /\ \E D \in Days : \E p, q \in picked[D] :
          p.dest < 0 /\ q.dest = -p.dest

\* C18: an invocation of sendToAssistant never starts a run before it has
\* appended its input, starts its one run as soon as the append is done,
\* and never starts a second one, whatever the status of the first.
C18_OneRunAfterAppend ==
    \A t \in Tasks :
       /\ runs[t] <= 1
       /\ appended[t] <=> runs[t] = 1
       /\ pc[t] \in {"run", "list"} => runs[t] = 1
       /\ status[t] # "none" => runs[t] = 1

\* An invocation whose run ended failed or expired has returned or thrown
\* with that one run started.
C18_Witness ==
    \E t \in Handlers :
       /\ status[t] \in {"failed", "expired"}
       /\ pc[t] \notin {"run", "list"}
       /\ appended[t]
       /\ runs[t] = 1

\* C19: the quarantine set never loses a destination, and it gains one
\* only in the step where a send of safeSendMessage fails permanently:
\* the destination of that send. No step of a webhook handler and no
\* other step of the broadcast changes it.
C19_QuarantineOnlyGrows ==
    [][/\ invalidGroups \subseteq invalidGroups'
       /\ invalidGroups' # invalidGroups
             => /\ pc[Cron] = "send"
                /\ lastErr' = "400"
                /\ invalidGroups' = invalidGroups \cup {out[Cron].dest}
                /\ \A t \in Handlers : pc'[t] = pc[t]]_vars

\* Two destinations are quarantined, a pass of the broadcast began with a
\* destination already in the set, and a webhook handler has finished an
\* update.
C19_Witness ==
    /\ Cardinality(invalidGroups) >= 2
    /\ pc["h1"] = "done"
    /\ startQ # {}

\* C20: after a 429 the next attempt of the call is made only when the
\* sleep has lasted the retry_after the server gave, it is made with the
\* destination, message and options of the attempt that was refused, and
\* neither the 429 nor the retry puts the destination in the quarantine set.
C20_RateLimitRetry ==
    [][/\ (pc[Cron] = "send" /\ pc'[Cron] = "sleep")
             => /\ invalidGroups' = invalidGroups
                /\ out' = out
                /\ nsend' = nsend
       /\ (pc[Cron] = "sleep" /\ pc'[Cron] = pc[Cron])
             => /\ nsend' = nsend
                /\ out' = out
                /\ invalidGroups' = invalidGroups
       /\ (pc[Cron] = "sleep" /\ pc'[Cron] # pc[Cron])
             => /\ pc'[Cron] = "send"
                /\ slept >= retryAfter
                /\ out'[Cron] = out[Cron]
                /\ nsend'[Cron] = Sat(nsend[Cron])
                /\ invalidGroups' = invalidGroups]_vars

\* The call is at its third attempt after two 429 answers, the first
\* destination of the pass, and nothing is quarantined.
C20_Witness ==
    /\ pc[Cron] = "send"
    /\ nsend[Cron] = 3
    /\ lastErr = "429"
    /\ out[Cron].dest = GROUPS[1]
    /\ invalidGroups = {}

\* C21: within one firing of the part_000 broadcast the destinations are
\* taken in the order of GROUPS, one at a time: the first send for a
\* position is issued when exactly the positions before it have been
\* attempted or skipped, the loop stays at that position through every
\* retry of the call, it advances by one position at a time, and a
\* quarantined destination is passed over without a send.
C21_SequentialInOrder ==
    [][program = "part000" =>
         /\ (pc[Cron] = "loop" /\ pc'[Cron] = "send")
               => /\ k' = k
                  /\ out'[Cron].dest = GROUPS[k]
                  /\ GROUPS[k] \notin invalidGroups
                  /\ attempted \cup skipped = {GROUPS[j] : j \in 1 .. (k - 1)}
                  /\ attempted' = attempted \cup {GROUPS[k]}
         /\ (pc[Cron] \in {"send", "sleep"} /\ pc'[Cron] \in {"send", "sleep"})
               => /\ k' = k
                  /\ out'[Cron].dest = GROUPS[k]
                  /\ attempted' = attempted
                  /\ skipped' = skipped
         /\ (skipped' # skipped /\ passes' = passes)
               => /\ pc[Cron] = "loop" /\ pc'[Cron] = "loop"
                  /\ GROUPS[k] \in invalidGroups
                  /\ skipped' = skipped \cup {GROUPS[k]}
                  /\ attempted \cup skipped = {GROUPS[j] : j \in 1 .. (k - 1)}
                  /\ out' = out
                  /\ nsend' = nsend
         /\ (k' # k /\ passes' = passes) => k' = k + 1]_vars

\* In a second firing the first destination was skipped as quarantined,
\* the second attempted, and the call for the third is at a retry.
C21_Witness ==
    /\ program = "part000"
    /\ passes = 2
    /\ pc[Cron] = "send"
    /\ k = 3
    /\ skipped = {GROUPS[1]}
    /\ attempted = {GROUPS[2], GROUPS[3]}
    /\ nsend[Cron] >= 2

\* C22: the newest output message an invocation of sendToAssistant reads
\* after its run is never one written by the run of an invocation that
\* began after it (such an invocation overlaps it and uses the same
\* thread).
C22_OwnRunOutput ==
    \A t \in Tasks :
       (fetched[t] /\ seen[t].kind # "none") => seen[t].by <= inv[t]
====
